---- MODULE Spec2Model ----
(***************************************************************************)
(* A model of ContentWebScrapper (src/scrapper.py): target resolution      *)
(* (get_target, get_attr, get_text), the page-load poller                  *)
(* (check_page_loaded) and the scraping pipeline (run).                    *)
(*                                                                         *)
(* Conventions.  A Python string is a sequence of one-character strings.   *)
(* An optional dict key (or a value that may be None) is a sequence of     *)
(* length 0 (key absent / None) or 1 (<<v>>, key present with value v).    *)
(* A parsed document is the sequence of its elements in document order;    *)
(* each element names its parent by index (0 = the document root).         *)
(***************************************************************************)
EXTENDS Integers, Sequences, FiniteSets, TLC

\* ------------------------------------------------------------ bounds
MaxNodes == 2
MaxRules == 2
MaxTargets == 2
MaxFuncs == 2
MaxDelayArg == 3

\* ------------------------------------------------------------ strings
Whitespace == {" "}

RECURSIVE LStrip(_)
LStrip(s) == IF s # <<>> /\ Head(s) \in Whitespace THEN LStrip(Tail(s)) ELSE s

Reverse(s) == [i \in 1..Len(s) |-> s[Len(s) + 1 - i]]

\* str.strip(): leading and trailing whitespace removed, inner kept.
Strip(s) == Reverse(LStrip(Reverse(LStrip(s))))

\* ------------------------------------------------------------ documents
AttrNames == {"id", "href"}

NoAttrs == [a \in AttrNames |-> <<>>]

ScriptStyle == {"script", "style"}

\* The elements a document is built from (without their position).
NodeKinds ==
    { [name |-> "div",
       attrs |-> [NoAttrs EXCEPT !["id"] = << <<"x">> >>,
                                 !["href"] = << <<" ", "v">> >>],
       text |-> <<" ", "h", " ", "i", " ">>],
      [name |-> "a", attrs |-> NoAttrs, text |-> <<"y">>],
      [name |-> "script",
       attrs |-> [NoAttrs EXCEPT !["id"] = << <<"x">> >>],
       text |-> <<"j", "s">>],
      [name |-> "style", attrs |-> NoAttrs, text |-> <<" ", "c">>] }

Place(kind, p) ==
    [name |-> kind.name, attrs |-> kind.attrs, text |-> kind.text, parent |-> p]

RECURSIVE IsAncestorOrSelf(_, _, _)
IsAncestorOrSelf(doc, a, i) ==
    IF i = 0 THEN FALSE
    ELSE IF i = a THEN TRUE
    ELSE IsAncestorOrSelf(doc, a, doc[i].parent)

\* Document order is pre-order: an element's parent is the root or lies on
\* the path from the root to the preceding element; script and style hold
\* raw text only, never child elements.
WellFormed(doc) ==
    \A i \in 1..Len(doc) :
        LET p == doc[i].parent IN
        \/ p = 0
        \/ /\ p < i
           /\ IsAncestorOrSelf(doc, p, i - 1)
           /\ doc[p].name \notin ScriptStyle

DocsOfLen(n) ==
    { d \in [1..n -> { Place(k, p) : k \in NodeKinds, p \in 0..(n - 1) }] :
        WellFormed(d) }

Docs == UNION { DocsOfLen(n) : n \in 0..MaxNodes }

Indices(doc) == [i \in 1..Len(doc) |-> i]

\* Tag.get_text(): the element's text followed by its descendants' text.
RECURSIVE TextFrom(_, _, _)
TextFrom(doc, a, i) ==
    IF i > Len(doc) THEN <<>>
    ELSE (IF IsAncestorOrSelf(doc, a, i) THEN doc[i].text ELSE <<>>)
         \o TextFrom(doc, a, i + 1)

TextOf(doc, a) == TextFrom(doc, a, a)

\* ------------------------------------------------------------ targets
IdX == << <<"x">> >>

\* (tag_name, tag_identifier) pairs of 'tag_identifiers'.
RuleKinds ==
    { [name |-> "a", ident |-> [NoAttrs EXCEPT !["id"] = IdX]],
      [name |-> "a", ident |-> NoAttrs],
      [name |-> "script", ident |-> NoAttrs],
      [name |-> "div", ident |-> [NoAttrs EXCEPT !["href"] = << <<" ", "v">> >>]] }

RuleLists == UNION { [1..n -> RuleKinds] : n \in 1..MaxRules }

OptBool == { <<>>, <<TRUE>>, <<FALSE>> }

OptAttr == { <<>>, <<"href">> }

\* A target dict: 'key', 'tag_identifiers', optional 'attr', 'nullable', 'all'.
Target(key, rules, attr, nullable, all) ==
    [key |-> key, tag_identifiers |-> rules, attr |-> attr,
     nullable |-> nullable, all |-> all]

Targets ==
    { Target("k1", r, a, n, l) :
        r \in RuleLists, a \in OptAttr, n \in OptBool, l \in OptBool }

\* ------------------------------------------------------------ return values
\* A returned value: kind "str" (val = <<the string>>), kind "list"
\* (val = the list of strings) or kind "error" (err = the exception raised).
Str(s) == [kind |-> "str", val |-> <<s>>, err |-> ""]

List(l) == [kind |-> "list", val |-> l, err |-> ""]

Raise(e) == [kind |-> "error", val |-> <<>>, err |-> e]

\* Python truthiness of a returned value.
Truthy(r) ==
    CASE r.kind = "str" -> r.val[1] # <<>>
      [] r.kind = "list" -> r.val # <<>>
      [] OTHER -> FALSE

\* Python truthiness of an optional boolean (None is falsy).
IsTrue(opt) == opt # <<>> /\ opt[1] = TRUE

\* ------------------------------------------------------------ searching
MatchesId(node, v) == node.attrs["id"] = <<v>>

MatchesTag(node, name, ident) ==
    /\ node.name = name
    /\ \A a \in AttrNames : ident[a] # <<>> => node.attrs[a] = ident[a]

\* soup.find_all(id=v): every matching element, in document order.
FindAllById(soup, v) ==
    SelectSeq(Indices(soup), LAMBDA i : MatchesId(soup[i], v))

\* soup.find_all(name, attrs): every matching element, in document order.
FindAllByTag(soup, name, ident) ==
    SelectSeq(Indices(soup), LAMBDA i : MatchesTag(soup[i], name, ident))

\* soup.find(...): the first element find_all would give, or None (index 0).
First(all) == IF all = <<>> THEN 0 ELSE all[1]

\* The elements a rule selects: by id when the identifier has one (the tag
\* name is then ignored), by tag name and attributes otherwise.
Matching(rule, soup) ==
    IF rule.ident["id"] # <<>>
    THEN FindAllById(soup, rule.ident["id"][1])
    ELSE FindAllByTag(soup, rule.name, rule.ident)

\* The body of the rule loop: the value bound to `tag` for one rule.
SearchRule(target, rule, soup) ==
    IF rule.ident["id"] # <<>>
    THEN IF target.all # <<>>
         THEN IF target.all[1] = TRUE
              THEN FindAllById(soup, rule.ident["id"][1])
              ELSE << First(FindAllById(soup, rule.ident["id"][1])) >>
         ELSE << First(FindAllById(soup, rule.ident["id"][1])) >>
    ELSE IF target.all # <<>>
         THEN IF target.all[1] = TRUE
              THEN FindAllByTag(soup, rule.name, rule.ident)
              ELSE << First(FindAllByTag(soup, rule.name, rule.ident)) >>
         ELSE << First(FindAllByTag(soup, rule.name, rule.ident)) >>

\* The rule loop: `tag` after the loop and the number of rules evaluated.
\* A non-empty list, [None] included, is truthy and breaks the loop.
RECURSIVE RuleLoop(_, _, _)
RuleLoop(target, soup, i) ==
    LET tag == SearchRule(target, target.tag_identifiers[i], soup) IN
    IF tag # <<>> \/ i = Len(target.tag_identifiers)
    THEN [tag |-> tag, evaluated |-> i]
    ELSE RuleLoop(target, soup, i + 1)

HasNone(tag) == \E i \in 1..Len(tag) : tag[i] = 0

GetAttr(soup, tag, attr, nullable) ==
    IF nullable /\ tag = <<>> THEN Str(<<>>)
    ELSE IF HasNone(tag) THEN Raise("AttributeError")
    ELSE IF \E i \in 1..Len(tag) : soup[tag[i]].attrs[attr] = <<>>
    THEN Raise("AttributeError")
    ELSE List([i \in 1..Len(tag) |-> Strip(soup[tag[i]].attrs[attr][1])])

GetText(soup, tag, nullable) ==
    IF nullable /\ tag = <<>> THEN Str(<<>>)
    ELSE IF HasNone(tag) THEN Raise("AttributeError")
    ELSE List([i \in 1..Len(tag) |-> Strip(TextOf(soup, tag[i]))])

\* get_target(target, soup): the returned value and, for the record, the
\* number of rules the loop evaluated.
GetTarget(target, soup) ==
    IF target.tag_identifiers = <<>>
    THEN [ret |-> Raise("UnboundLocalError"), evaluated |-> 0]
    ELSE LET loop == RuleLoop(target, soup, 1)
             nullable == IsTrue(target.nullable)
         IN  [ret |-> IF target.attr # <<>>
                      THEN GetAttr(soup, loop.tag, target.attr[1], nullable)
                      ELSE GetText(soup, loop.tag, nullable),
              evaluated |-> loop.evaluated]

\* ------------------------------------------------------------ stripping
\* A stripping that forgets the style elements.
RemovedScriptOnly(doc, i) ==
    \E a \in 1..Len(doc) : doc[a].name = "script" /\ IsAncestorOrSelf(doc, a, i)

\* Tag.decompose() for every element of soup(["script", "style"]): the
\* element and its descendants leave the tree.
Removed(doc, i) ==
    \E a \in 1..Len(doc) : doc[a].name \in ScriptStyle /\ IsAncestorOrSelf(doc, a, i)

NewIndex(doc, i) == Cardinality({ j \in 1..i : ~Removed(doc, j) })

StripTags(doc) ==
    LET kept == SelectSeq(Indices(doc), LAMBDA i : ~Removed(doc, i)) IN
    [n \in 1..Len(kept) |->
        [doc[kept[n]] EXCEPT !.parent = NewIndex(doc, doc[kept[n]].parent)]]

\* Whether the document holds no script and no style element.
NoScriptStyle(doc) == \A i \in 1..Len(doc) : doc[i].name \notin ScriptStyle

\* ------------------------------------------------------------ callbacks
\* extra_functions: (key, function) pairs; a function maps the soup to a
\* value.  Two sample functions that depend on the whole document: "names"
\* lists the tag names, "first_text" gives the first element's trimmed text.
ApplyFunc(fn, doc) ==
    IF fn = "names"
    THEN List([i \in 1..Len(doc) |-> <<doc[i].name>>])
    ELSE Str(IF doc = <<>> THEN <<>> ELSE Strip(TextOf(doc, 1)))

\* An assignment that keeps the value a key already has.
PutKeepFirst(result, key, value) ==
    [k \in (DOMAIN result) \cup {key} |->
        IF k \in DOMAIN result THEN result[k] ELSE value]

\* result[key] = value
Put(result, key, value) ==
    [k \in (DOMAIN result) \cup {key} |-> IF k = key THEN value ELSE result[k]]

EmptyDict == [k \in {} |-> Str(<<>>)]

\* ------------------------------------------------------------ state
DefaultMaxDelay == 30

Modes == {"STATIC", "DYNAMIC", "SOUP"}

VARIABLES
    entry,              \* the public method called: run, check_page_loaded, get_target
    args,               \* the arguments of a direct call
    url, mode, driver, soup, page_load_checker, targets, extra_functions,
    pc,                 \* position in the running method
    found, max_delay,   \* locals of check_page_loaded
    result, idx,        \* locals of run: the dict and the loop position
    ret,                \* value returned by the method called, <<>> before
    loaded,             \* value returned by check_page_loaded, <<>> before
    error,              \* exception raised: its type and the method raising it
    polls, firstMatch,  \* history: polls made, first poll that showed the marker
    log,                \* history: targets resolved and callbacks invoked by run
    removed,            \* history: whether the stripping removed an element
    checker0            \* history: page_load_checker as the caller supplied it

vars == <<entry, args, url, mode, driver, soup, page_load_checker, targets,
          extra_functions, pc, found, max_delay, result, idx, ret, loaded,
          error, polls, firstMatch, log, removed, checker0>>

config == <<entry, args, url, mode, driver, targets, extra_functions, checker0>>

NoError == [type |-> "", msg |-> "", at |-> ""]

NoArgs == [target |-> <<>>, soup |-> <<>>, max_delay |-> <<>>]

\* The load checker: a target dict without a use for 'key'.
Checkers ==
    { Target("", <<r>>, a, n, l) :
        r \in { k \in RuleKinds : k.ident["id"] # <<>> },
        a \in OptAttr, n \in OptBool, l \in OptBool }

Locals ==
    /\ pc \in {"run", "check_page_loaded", "get_target"}
    /\ found = FALSE
    /\ result = EmptyDict
    /\ idx = 0
    /\ ret = <<>>
    /\ loaded = <<>>
    /\ error = NoError
    /\ polls = 0
    /\ firstMatch = 0
    /\ log = <<>>
    /\ removed = FALSE
    /\ checker0 = page_load_checker

\* ------------------------------------------------------------ run
Fail(type, msg, at) ==
    /\ error' = [type |-> type, msg |-> msg, at |-> at]
    /\ pc' = "done"

\* run(), the url check that opens it.
RunValidate ==
    /\ entry = "run" /\ pc = "run"
    /\ IF url = <<>>
       THEN Fail("ValueError", "url cannot be empty", "run")
       ELSE /\ pc' = CASE mode = "DYNAMIC" -> "dynamic"
                       [] mode = "STATIC" -> "static"
                       [] OTHER -> "soup"
            /\ UNCHANGED error
    /\ UNCHANGED <<config, soup, page_load_checker, found, max_delay, result,
                   idx, ret, loaded, polls, firstMatch, log, removed>>

\* DYNAMIC: the driver (init_selenium_driver is no global name) and
\* driver.get(url); then the load check, if a checker is configured.
RunDynamicOpen ==
    /\ pc = "dynamic"
    /\ IF driver = <<>>
       THEN Fail("NameError", "init_selenium_driver is not defined", "run")
       ELSE /\ pc' = IF page_load_checker # <<>> THEN "check_page_loaded"
                     ELSE "page_source"
            /\ UNCHANGED error
    /\ UNCHANGED <<config, soup, page_load_checker, found, max_delay, result,
                   idx, ret, loaded, polls, firstMatch, log, removed>>

\* check_page_loaded(max_delay): the statements before the loop.
CheckPageLoadedEnter ==
    /\ pc = "check_page_loaded"
    /\ found' = FALSE
    /\ page_load_checker' = << [page_load_checker[1] EXCEPT !.nullable = <<TRUE>>] >>
    /\ max_delay' = IF args.max_delay # <<>> THEN args.max_delay[1]
                    ELSE DefaultMaxDelay
    /\ pc' = "loop"
    /\ UNCHANGED <<config, soup, result, idx, ret, loaded, error, polls,
                   firstMatch, log, removed>>

\* Whether some rule of the checker matches an element of the document.
MarkerPresent(checker, doc) ==
    \E i \in 1..Len(checker.tag_identifiers) :
        Matching(checker.tag_identifiers[i], doc) # <<>>

\* One iteration of the polling loop; the driver shows any document.
CheckPageLoadedPoll ==
    /\ pc = "loop"
    /\ ~found /\ max_delay # 0
    /\ \E doc \in Docs :
        LET confirmation_tag == GetTarget(page_load_checker[1], doc).ret IN
        /\ polls' = polls + 1
        /\ firstMatch' = IF firstMatch = 0 /\ MarkerPresent(page_load_checker[1], doc)
                         THEN polls + 1 ELSE firstMatch
        /\ IF confirmation_tag.kind = "error"
           THEN /\ Fail(confirmation_tag.err, "", "check_page_loaded")
                /\ UNCHANGED <<found, max_delay>>
           ELSE /\ found' = Truthy(confirmation_tag)
                /\ max_delay' = max_delay - 1
                /\ UNCHANGED <<pc, error>>
    /\ UNCHANGED <<config, soup, page_load_checker, result, idx, ret, loaded, log, removed>>

\* return found; the locals of the call end with it.
CheckPageLoadedReturn ==
    /\ pc = "loop"
    /\ found \/ max_delay = 0
    /\ loaded' = <<found>>
    /\ IF entry = "run"
       THEN pc' = "page_source" /\ UNCHANGED ret
       ELSE pc' = "done" /\ ret' = <<found>>
    /\ found' = FALSE
    /\ max_delay' = 0
    /\ polls' = 0
    /\ firstMatch' = 0
    /\ UNCHANGED <<config, soup, page_load_checker, result, idx, error, log, removed>>

\* DYNAMIC: html = self.driver.page_source, parsed.
RunPageSource ==
    /\ pc = "page_source"
    /\ \E doc \in Docs : soup' = <<doc>>
    /\ pc' = "strip"
    /\ UNCHANGED <<config, page_load_checker, found, max_delay, result, idx,
                   ret, loaded, error, polls, firstMatch, log, removed>>

\* STATIC: requests.get(url), decoded and parsed.
RunStatic ==
    /\ pc = "static"
    /\ \E doc \in Docs : soup' = <<doc>>
    /\ pc' = "strip"
    /\ UNCHANGED <<config, page_load_checker, found, max_delay, result, idx,
                   ret, loaded, error, polls, firstMatch, log, removed>>

\* SOUP: the document the caller supplied.
RunSoup ==
    /\ pc = "soup"
    /\ IF soup = <<>>
       THEN Fail("ValueError", "soup cannot be empty", "run")
       ELSE pc' = "strip" /\ UNCHANGED error
    /\ UNCHANGED <<config, soup, page_load_checker, found, max_delay, result,
                   idx, ret, loaded, polls, firstMatch, log, removed>>

AfterTargets == IF extra_functions # <<>> THEN "funcs" ELSE "return"

\* removing useless tags; result = {}
RunStrip ==
    /\ pc = "strip"
    /\ soup' = << StripTags(soup[1]) >>
    /\ removed' = (Len(StripTags(soup[1])) < Len(soup[1]))
    /\ result' = EmptyDict
    /\ idx' = 1
    /\ pc' = IF targets # <<>> THEN "targets" ELSE AfterTargets
    /\ UNCHANGED <<config, page_load_checker, found, max_delay, ret, loaded,
                   error, polls, firstMatch, log>>

\* One iteration of `for target in self.targets`.
RunTarget ==
    /\ pc = "targets"
    /\ LET target == targets[idx]
           value == GetTarget(target, soup[1]).ret
       IN  /\ log' = Append(log, [op |-> "target", n |-> idx, clean |-> NoScriptStyle(soup[1])])
           /\ IF value.kind = "error"
              THEN /\ Fail(value.err, "", "get_target")
                   /\ UNCHANGED <<result, idx>>
              ELSE /\ result' = Put(result, target.key, value)
                   /\ idx' = IF idx = Len(targets) THEN 1 ELSE idx + 1
                   /\ pc' = IF idx = Len(targets) THEN AfterTargets ELSE "targets"
                   /\ UNCHANGED error
    /\ UNCHANGED <<config, soup, page_load_checker, found, max_delay, ret,
                   loaded, polls, firstMatch, removed>>

\* One iteration of `for key, function in self.extra_functions`.
RunExtra ==
    /\ pc = "funcs"
    /\ LET f == extra_functions[idx] IN
       /\ log' = Append(log, [op |-> "func", n |-> idx, clean |-> NoScriptStyle(soup[1])])
       /\ result' = Put(result, f.key, ApplyFunc(f.function, soup[1]))
    /\ idx' = IF idx = Len(extra_functions) THEN 1 ELSE idx + 1
    /\ pc' = IF idx = Len(extra_functions) THEN "return" ELSE "funcs"
    /\ UNCHANGED <<config, soup, page_load_checker, found, max_delay, ret,
                   loaded, error, polls, firstMatch, removed>>

\* return result
RunReturn ==
    /\ pc = "return"
    /\ ret' = <<result>>
    /\ pc' = "done"
    /\ UNCHANGED <<config, soup, page_load_checker, found, max_delay, result,
                   idx, loaded, error, polls, firstMatch, log, removed>>

\* get_target(target, soup), called on its own.
GetTargetCall ==
    /\ entry = "get_target" /\ pc = "get_target"
    /\ ret' = << GetTarget(args.target[1], args.soup[1]) >>
    /\ pc' = "done"
    /\ UNCHANGED <<config, soup, page_load_checker, found, max_delay, result,
                   idx, loaded, error, polls, firstMatch, log, removed>>

\* ------------------------------------------------------------ inputs
\* Targets of a run: every element with the id, under one key, and every
\* script element, under another; both nullable.
RunTargets ==
    { Target("k1", << [name |-> "a", ident |-> [NoAttrs EXCEPT !["id"] = IdX]] >>,
             <<>>, <<TRUE>>, <<TRUE>>),
      Target("k2", << [name |-> "script", ident |-> NoAttrs] >>,
             <<>>, <<TRUE>>, <<TRUE>>) }

RunTargetLists == UNION { [1..n -> RunTargets] : n \in 0..MaxTargets }

\* Callbacks of a run: one under a key a target uses, one under its own.
ExtraFunctions ==
    { [key |-> "k1", function |-> "names"],
      [key |-> "k3", function |-> "first_text"] }

ExtraFunctionLists == UNION { [1..n -> ExtraFunctions] : n \in 0..MaxFuncs }

\* Load checkers of a run: as documented for check_page_loaded, without
\* 'attr' and without 'nullable'.
RunCheckers ==
    { c \in Checkers : c.attr = <<>> /\ c.all # <<FALSE>> /\ c.nullable = <<>> }

\* A scrapper as constructed, run() about to be called.  A field the mode
\* never reads keeps its default.
Init ==
    /\ entry = "run" /\ pc = "run"
    /\ args = NoArgs
    /\ url \in { <<>>, <<"u">> }
    /\ mode \in Modes
    /\ driver \in IF mode = "DYNAMIC" THEN { <<>>, <<"chrome">> } ELSE { <<>> }
    /\ page_load_checker \in
         IF mode = "DYNAMIC" THEN { <<>> } \cup { <<c>> : c \in RunCheckers }
         ELSE { <<>> }
    /\ soup \in IF mode = "SOUP" THEN { <<>> } \cup { <<d>> : d \in Docs }
                ELSE { <<>> }
    /\ targets \in RunTargetLists
    /\ extra_functions \in ExtraFunctionLists
    /\ max_delay = 0
    /\ Locals

Next ==
    \/ RunValidate
    \/ RunDynamicOpen
    \/ CheckPageLoadedEnter
    \/ CheckPageLoadedPoll
    \/ CheckPageLoadedReturn
    \/ RunPageSource
    \/ RunStatic
    \/ RunSoup
    \/ RunStrip
    \/ RunTarget
    \/ RunExtra
    \/ RunReturn

Spec == Init /\ [][Next]_vars

\* check_page_loaded(max_delay) called on a scrapper holding a driver and a
\* load checker.
InitPoll ==
    /\ entry = "check_page_loaded" /\ pc = "check_page_loaded"
    /\ \E d \in 0..MaxDelayArg : args = [NoArgs EXCEPT !.max_delay = <<d>>]
    /\ url = <<"u">>
    /\ mode = "DYNAMIC"
    /\ driver = <<"chrome">>
    /\ page_load_checker \in { <<c>> : c \in Checkers }
    /\ soup = <<>>
    /\ targets = <<>>
    /\ extra_functions = <<>>
    /\ max_delay = 0
    /\ Locals

NextPoll ==
    \/ CheckPageLoadedEnter
    \/ CheckPageLoadedPoll
    \/ CheckPageLoadedReturn

SpecPoll == InitPoll /\ [][NextPoll]_vars

\* get_target(target, soup) called with any target and any document.
InitResolve ==
    /\ entry = "get_target" /\ pc = "get_target"
    /\ \E t \in Targets, d \in Docs :
          args = [NoArgs EXCEPT !.target = <<t>>, !.soup = <<d>>]
    /\ url = <<>>
    /\ mode = "STATIC"
    /\ driver = <<>>
    /\ page_load_checker = <<>>
    /\ soup = <<>>
    /\ targets = <<>>
    /\ extra_functions = <<>>
    /\ max_delay = 0
    /\ Locals

NextResolve == GetTargetCall

SpecResolve == InitResolve /\ [][NextResolve]_vars

\* ------------------------------------------------------------ properties
\* get_target called on its own: its arguments and what it returned.
Resolved == entry = "get_target" /\ pc = "done"

ArgTarget == args.target[1]

ArgSoup == args.soup[1]

Returned == ret[1].ret

NoRuleMatches(target, doc) ==
    \A i \in 1..Len(target.tag_identifiers) :
        Matching(target.tag_identifiers[i], doc) = <<>>

\* C1: with tag_identifiers = [ruleA, ruleB], whether 'all' is set or not:
\* when ruleA selects no element and ruleB selects one, get_target returns
\* what it returns for ruleB alone; when ruleA selects an element, ruleB is
\* never evaluated.
C1_RuleFallback ==
    (Resolved /\ Len(ArgTarget.tag_identifiers) = 2) =>
        LET ruleA == ArgTarget.tag_identifiers[1]
            ruleB == ArgTarget.tag_identifiers[2]
            onlyB == [ArgTarget EXCEPT !.tag_identifiers = <<ruleB>>]
        IN  /\ (Matching(ruleA, ArgSoup) = <<>> /\ Len(Matching(ruleB, ArgSoup)) = 1)
                => Returned = GetTarget(onlyB, ArgSoup).ret
            /\ Matching(ruleA, ArgSoup) # <<>> => ret[1].evaluated = 1

\* C2: a target with nullable true whose rules select no element resolves
\* without an error: to the empty string without 'all', to an empty list
\* with 'all', with or without 'attr'.
C2_NullableEmpty ==
    (Resolved /\ IsTrue(ArgTarget.nullable) /\ NoRuleMatches(ArgTarget, ArgSoup)) =>
        Returned = IF IsTrue(ArgTarget.all) THEN List(<<>>) ELSE Str(<<>>)

\* C3: a target with nullable false or absent whose rules select no element
\* makes get_target raise MissingRequiredTarget, with or without 'all' and
\* 'attr'.
C3_RequiredMissing ==
    (Resolved /\ ~IsTrue(ArgTarget.nullable) /\ NoRuleMatches(ArgTarget, ArgSoup)) =>
        Returned = Raise("MissingRequiredTarget")

\* The elements some rule of the target selects.
Selected(target, doc) ==
    { e \in 1..Len(doc) :
        \E i \in 1..Len(target.tag_identifiers) :
            \E n \in 1..Len(Matching(target.tag_identifiers[i], doc)) :
                Matching(target.tag_identifiers[i], doc)[n] = e }

\* C4: a target without 'all' (or with all false) and without 'attr',
\* resolved against a document holding exactly one matching element,
\* resolves to that element's trimmed text as a single string.
C4_SingleString ==
    (/\ Resolved
     /\ ~IsTrue(ArgTarget.all)
     /\ ArgTarget.attr = <<>>
     /\ Cardinality(Selected(ArgTarget, ArgSoup)) = 1) =>
        \A e \in Selected(ArgTarget, ArgSoup) :
            Returned = Str(Strip(TextOf(ArgSoup, e)))

\* C5: check_page_loaded(max_delay) with max_delay >= 0 ends by returning,
\* never by raising: true after exactly k polls when the k-th polled
\* document is the first to hold the marker and k <= max_delay, false after
\* exactly max_delay polls when none does.  (Stated for checkers without
\* 'attr'.)
C5_PollBudget ==
    (entry = "check_page_loaded" /\ checker0[1].attr = <<>>) =>
        /\ error = NoError
        /\ (pc = "loop" /\ found) => (firstMatch = polls /\ polls <= args.max_delay[1])
        /\ (pc = "loop" /\ ~found /\ max_delay = 0)
              => (firstMatch = 0 /\ polls = args.max_delay[1])
        /\ (pc = "loop" /\ ~found /\ max_delay # 0) => firstMatch = 0

\* C6: in DYNAMIC mode with a load checker, while no polled document holds
\* the marker, run does not fail in the load check: the poll reads the
\* absence as "not found".
C6_PermissiveTimeout ==
    (entry = "run" /\ mode = "DYNAMIC" /\ checker0 # <<>> /\ firstMatch = 0) =>
        error.at # "check_page_loaded"

\* C7: run raises its ValueError exactly when the mode is STATIC or DYNAMIC
\* and no url is configured, or the mode is SOUP and no soup was supplied.
C7_InputValidation ==
    (entry = "run" /\ pc = "done") =>
        ((error.type = "ValueError")
            <=> \/ (mode \in {"STATIC", "DYNAMIC"} /\ url = <<>>)
                \/ (mode = "SOUP" /\ soup = <<>>))

\* C10: once check_page_loaded has returned, page_load_checker is as the
\* caller supplied it.
C10_CheckerUnchanged ==
    loaded # <<>> => page_load_checker = checker0

TargetKeys == { targets[i].key : i \in 1..Len(targets) }

FuncKeys == { extra_functions[i].key : i \in 1..Len(extra_functions) }

\* The characters of script and style text, and the two tag names.
ScriptMarks ==
    ScriptStyle \cup
    ((UNION { { k.text[i] : i \in 1..Len(k.text) } :
                k \in { n \in NodeKinds : n.name \in ScriptStyle } }) \ Whitespace)

FreeOfScript(value) ==
    \A i \in 1..Len(value.val) :
        \A j \in 1..Len(value.val[i]) : value.val[i][j] \notin ScriptMarks

\* C8: in every mode, from the first target resolution to the return of
\* run, the document holds no script and no style element: every target and
\* every callback is given the stripped document, a target selecting script
\* or style by tag name selects nothing, and no value of the result holds
\* script or style text.
C8_StripBeforeExtraction ==
    entry = "run" =>
        /\ \A i \in 1..Len(log) : log[i].clean
        /\ pc \in {"targets", "funcs", "return"} =>
              /\ NoScriptStyle(soup[1])
              /\ \A i \in 1..Len(targets) :
                    \A r \in 1..Len(targets[i].tag_identifiers) :
                        LET rule == targets[i].tag_identifiers[r] IN
                        (rule.ident["id"] = <<>> /\ rule.name \in ScriptStyle)
                            => Matching(rule, soup[1]) = <<>>
        /\ \A k \in DOMAIN result : FreeOfScript(result[k])

\* C8 happens: a run returned after the stripping removed an element, with
\* the by-id target holding an element's text and the script target empty.
C8_Witness ==
    /\ entry = "run" /\ pc = "done" /\ ret # <<>>
    /\ removed
    /\ {"k1", "k2"} \subseteq TargetKeys \ FuncKeys
    /\ ret[1]["k1"].kind = "list" /\ ret[1]["k1"].val # <<>>
    /\ ret[1]["k2"] = Str(<<>>)

\* The last position of a key among the targets / among the callbacks.
LastTarget(k) ==
    CHOOSE i \in 1..Len(targets) :
        /\ targets[i].key = k
        /\ \A j \in (i + 1)..Len(targets) : targets[j].key # k

LastFunc(k) ==
    CHOOSE i \in 1..Len(extra_functions) :
        /\ extra_functions[i].key = k
        /\ \A j \in (i + 1)..Len(extra_functions) : extra_functions[j].key # k

\* C9: run resolves the targets in order, then invokes the callbacks in
\* order, each once and on the stripped document; the dict it returns has
\* exactly the target keys and the callback keys, a callback's value
\* standing where a target has the same key.
C9_CallbacksAfterTargets ==
    entry = "run" =>
        /\ Len(log) <= Len(targets) + Len(extra_functions)
        /\ \A i \in 1..Len(log) :
              /\ log[i].clean
              /\ IF i <= Len(targets)
                 THEN log[i].op = "target" /\ log[i].n = i
                 ELSE log[i].op = "func" /\ log[i].n = i - Len(targets)
        /\ (pc = "done" /\ ret # <<>>) =>
              /\ Len(log) = Len(targets) + Len(extra_functions)
              /\ DOMAIN ret[1] = TargetKeys \cup FuncKeys
              /\ \A k \in FuncKeys :
                    ret[1][k] = ApplyFunc(extra_functions[LastFunc(k)].function, soup[1])
              /\ \A k \in TargetKeys \ FuncKeys :
                    ret[1][k] = GetTarget(targets[LastTarget(k)], soup[1]).ret

\* C9 happens: a run with two targets and two callbacks returned, a
\* callback's value standing under the key it shares with a target.
C9_Witness ==
    /\ entry = "run" /\ pc = "done" /\ ret # <<>>
    /\ Len(targets) = 2 /\ Len(extra_functions) = 2
    /\ TargetKeys \cap FuncKeys # {}
    /\ \E k \in TargetKeys \cap FuncKeys :
          /\ ret[1][k] = ApplyFunc(extra_functions[LastFunc(k)].function, soup[1])
          /\ ret[1][k] # GetTarget(targets[LastTarget(k)], soup[1]).ret

====
